---- MODULE Spec2Model ----
(***************************************************************************)
(* lnsync: a daemon that mirrors the files of several source directories   *)
(* as symbolic links in one destination directory (src/lnsync.go).         *)
(*                                                                         *)
(* Goroutines of the program and where the model keeps their position:     *)
(*   main                       pcMain                                     *)
(*   Directory.InitFSWatch      sess[d]     (one per source directory)     *)
(*   Directory.fsEvent          fsPc[d], held[d]                           *)
(*   event router (go func)     pcRouter, exitCnt, quitSent                *)
(*   Directory.UpdateDirs       running     (one per dispatched event)     *)
(* All channels are unbuffered, so a send and its receive are one step.    *)
(* The file system (source directories, destination directory, the OS      *)
(* watch queues) is the environment.                                       *)
(***************************************************************************)
EXTENDS Integers, Sequences, FiniteSets

\* ------------------------------------------------------------------ bounds
\* Number of file operations the environment performs on the sources.
MaxOps == 2
\* Number of global quit signals offered on chanQuit.
MaxQuits == 2

\* ------------------------------------------------------------- universe
\* Source directories, the base names their files may have, and the names
\* the destination directory may hold, in the order ReadDir lists them ("z"
\* is an entry no source file is named after).
Dirs == {"A", "B"}
SrcNames == {"x"}
NameOrder == <<"x", "z">>
Names == {NameOrder[i] : i \in 1..Len(NameOrder)}
Files == Dirs \X SrcNames

NoTarget == <<"-", "-">>
Gone == <<"/gone", "-">>
Absent == [type |-> "absent", target |-> NoTarget]
RegularFile == [type |-> "file", target |-> NoTarget]
Link(t) == [type |-> "link", target |-> t]
Entries == {Absent, RegularFile} \cup {Link(t) : t \in Files \cup {Gone}}

NoEvent == [id |-> 0, kind |-> "none", dir |-> "-", name |-> "-"]
Kinds == {"create", "delete", "modify"}

VARIABLES
    files,      \* files present in the source directories, as <<dir, name>>
    dest,       \* destination directory: name -> entry
    alive,      \* the process is running
    pcMain,     \* position of main
    todo,       \* cleanDirs: destination entries still to examine
    sess,       \* position of InitFSWatch, per directory
    watching,   \* the directory's watch is registered and its handle open
    wq,         \* events the OS has queued for the directory's watcher
    fsPc,       \* position of fsEvent, per directory
    held,       \* the UpdateHeader fsEvent is sending on d.Update
    pcRouter,   \* position of the event router goroutine
    exitCnt,    \* the router's outstanding count
    quitSent,   \* WatcherQuit sends done in the router's current quit loop
    running,    \* events whose UpdateDirs goroutine is spawned, not yet run
    finished,   \* the events UpdateDirs has run for, each with the error
                \* it returned (and logged)
    nOps,       \* file operations performed so far
    nQuits,     \* quit signals delivered so far
    initDest,   \* history: the destination directory at process start
    srcTouched, \* history: a source file appeared or vanished between the
                \* call of cleanDirs and the start of the router
    termReq,    \* history: SIGTERM was delivered to the handler
    nDisp       \* history: id -> times the router dispatched the notification

vars == <<files, dest, alive, pcMain, todo, sess, watching, wq, fsPc, held,
          pcRouter, exitCnt, quitSent, running, finished, nOps, nQuits,
          initDest, srcTouched, termReq, nDisp>>

fsVars == <<files, wq, nOps>>
mainVars == <<pcMain, todo>>
sessVars == <<sess, watching>>
fwdVars == <<fsPc, held>>
routerVars == <<pcRouter, exitCnt, quitSent>>
actVars == <<running, finished, nDisp>>
histVars == <<initDest, srcTouched, termReq>>

Ids == 1..MaxOps

\* --------------------------------------------------------- file system
\* filepath.EvalSymlinks succeeds on anything but a link whose target is gone.
Resolves(e, fs) == e.type = "file" \/ (e.type = "link" /\ e.target \in fs)

IsSymlink(e) == e.type = "link"

\* Mutant: the link is forced over an existing entry (ln -sf).
Symlink_Force(dst, target, name) ==
    [d |-> [dst EXCEPT ![name] = Link(target)], err |-> "nil"]

\* os.Symlink(oldname, newname): EEXIST when newname exists, whatever it is.
Symlink(dst, target, name) ==
    IF dst[name] # Absent
    THEN [d |-> dst, err |-> "EEXIST"]
    ELSE [d |-> [dst EXCEPT ![name] = Link(target)], err |-> "nil"]

\* Mutant: only symbolic links are removed, other entries are reported absent.
Remove_OnlyLinks(dst, name) ==
    IF dst[name].type # "link"
    THEN [d |-> dst, err |-> "ENOENT"]
    ELSE [d |-> [dst EXCEPT ![name] = Absent], err |-> "nil"]

\* os.Remove(name): ENOENT when name does not exist.
Remove(dst, name) ==
    IF dst[name] = Absent
    THEN [d |-> dst, err |-> "ENOENT"]
    ELSE [d |-> [dst EXCEPT ![name] = Absent], err |-> "nil"]

\* Mutant: every event that is no deletion is taken for a creation.
IsCreate_NotDelete(ev) == ev.kind # "delete"

IsCreate(ev) == ev.kind = "create"
IsDelete(ev) == ev.kind = "delete"
\* Mutant: the base name is taken of the wrong path.
Base_OfDir(ev) == IF ev.dir = "A" THEN ev.name ELSE "z"

\* path.Base(updated.Event.Name)
Base(ev) == ev.name
\* updated.Event.Name: the path of the file in its source directory
EventName(ev) == <<ev.dir, ev.name>>

\* ------------------------------------------------------ pure operations
\* Mutant: an existing entry is removed before the link is made.
UpdateDirs_Replace(dist, updated) ==
    IF IsCreate(updated)
    THEN Symlink(Remove(dist, Base(updated)).d, EventName(updated), Base(updated))
    ELSE IF IsDelete(updated) THEN Remove(dist, Base(updated))
         ELSE [d |-> dist, err |-> "nil"]

\* Directory.UpdateDirs: what one notification does to the destination
\* directory dist, and the error it returns (and logs).
UpdateDirs(dist, updated) ==
    LET c == IF IsCreate(updated)
             THEN Symlink(dist, EventName(updated), Base(updated))
             ELSE [d |-> dist, err |-> "nil"]
    IN  IF c.err # "nil"
        THEN c
        ELSE IF IsDelete(updated) THEN Remove(c.d, Base(updated)) ELSE c

\* Mutant: every symbolic link is removed, resolvable or not.
CleanEntry_AllLinks(dst, name, fs) ==
    IF IsSymlink(dst[name]) THEN Remove(dst, name).d ELSE dst

\* cleanDirs, body of the loop over the destination's entries: a symbolic
\* link whose target does not resolve is removed, anything else is kept.
CleanEntry(dst, name, fs) ==
    IF IsSymlink(dst[name]) /\ ~Resolves(dst[name], fs)
    THEN Remove(dst, name).d
    ELSE dst

\* ioutil.ReadDir(target): the names present, sorted by name.
ReadDir(dst) == SelectSeq(NameOrder, LAMBDA n : dst[n] # Absent)

\* Mutant: the router returns when at most one session is outstanding.
RouterCheck_Early(cnt) == IF cnt <= 1 THEN "done" ELSE "select"

\* The router's test after every select case: return when exitCnt is 0.
RouterCheck(cnt) == IF cnt = 0 THEN "done" ELSE "select"

\* main is between the call of cleanDirs and the start of the router.
CleanPcs == {"cleanSrc", "cleanDst", "cleanEntry", "cleaned"}

\* ------------------------------------------------------------ initial
\* Destination directories the daemon may be started on.
\* The source contents and destination directories the daemon is started on.
InitFiles == {{}, {<<"A", "x">>, <<"B", "x">>}}
NoEntries == [n \in Names |-> Absent]
InitDests ==
    { NoEntries,
      [NoEntries EXCEPT !["x"] = Link(<<"A", "x">>), !["z"] = Link(Gone)],
      [NoEntries EXCEPT !["x"] = RegularFile] }

InitWith(fs, ds) ==
    /\ files \in fs
    /\ dest \in ds
    /\ initDest = dest
    /\ alive = TRUE
    /\ pcMain = "spawn"
    /\ todo = <<>>
    /\ sess = [d \in Dirs |-> "new"]
    /\ watching = [d \in Dirs |-> FALSE]
    /\ wq = [d \in Dirs |-> <<>>]
    /\ fsPc = [d \in Dirs |-> "off"]
    /\ held = [d \in Dirs |-> NoEvent]
    /\ pcRouter = "off"
    /\ exitCnt = 0
    /\ quitSent = 0
    /\ running = {}
    /\ finished = {}
    /\ nDisp = [i \in Ids |-> 0]
    /\ nOps = 0
    /\ nQuits = 0
    /\ srcTouched = FALSE
    /\ termReq = FALSE

Init == InitWith(InitFiles, InitDests)

\* ------------------------------------------------- environment: sources
\* Mutant: the router is started together with the sessions, before cleanDirs.
SpawnSessions_WithRouter ==
    /\ alive
    /\ pcMain = "spawn"
    /\ pcMain' = "cleanSrc"
    /\ sess' = [d \in Dirs |-> "start"]
    /\ exitCnt' = Cardinality(Dirs)
    /\ pcRouter' = "select"
    /\ UNCHANGED <<fsVars, dest, alive, todo, watching, fwdVars, quitSent,
                   actVars, nQuits, histVars>>

\* Mutant: the notification stays with fsEvent after the router took it.
RecvUpdate_Redeliver(d) ==
    /\ alive
    /\ pcRouter = "select"
    /\ fsPc[d] = "send"
    /\ running' = running \cup {held[d]}
    /\ nDisp' = [nDisp EXCEPT ![held[d].id] = @ + 1]
    /\ pcRouter' = RouterCheck(exitCnt)
    /\ UNCHANGED <<fsVars, dest, alive, mainVars, sessVars, fwdVars, exitCnt,
                   quitSent, finished, nQuits, histVars>>

\* One file operation in source directory d; the OS queues an event for the
\* directory's watcher when the watch is registered.
FileOp(d, n, kind, fs) ==
    /\ alive
    /\ nOps < MaxOps
    /\ nOps' = nOps + 1
    /\ files' = fs
    /\ wq' = IF watching[d]
             THEN [wq EXCEPT ![d] = Append(@, [id |-> nOps + 1, kind |-> kind,
                                               dir |-> d, name |-> n])]
             ELSE wq
    /\ srcTouched' = (srcTouched \/ (pcMain \in CleanPcs /\ fs # files))
    /\ UNCHANGED <<dest, alive, mainVars, sessVars, fwdVars, routerVars,
                   actVars, nQuits, initDest, termReq>>

CreateFile(d, n) ==
    /\ <<d, n>> \notin files
    /\ FileOp(d, n, "create", files \cup {<<d, n>>})

DeleteFile(d, n) ==
    /\ <<d, n>> \in files
    /\ FileOp(d, n, "delete", files \ {<<d, n>>})

ModifyFile(d, n) ==
    /\ <<d, n>> \in files
    /\ FileOp(d, n, "modify", files)

\* Mutant: on a stream error the session is counted as having left.
FsEventError_Counted(d) ==
    /\ alive
    /\ fsPc[d] = "select"
    /\ watching[d]
    /\ fsPc' = [fsPc EXCEPT ![d] = "exited"]
    /\ exitCnt' = exitCnt - 1
    /\ UNCHANGED <<fsVars, dest, alive, mainVars, sessVars, held, pcRouter,
                   quitSent, actVars, nQuits, histVars>>

\* The watcher's stream reports an error: fsEvent logs and returns.
FsEventError(d) ==
    /\ alive
    /\ fsPc[d] = "select"
    /\ watching[d]
    /\ fsPc' = [fsPc EXCEPT ![d] = "exited"]
    /\ UNCHANGED <<fsVars, dest, alive, mainVars, sessVars, held, routerVars,
                   actVars, nQuits, histVars>>

\* ------------------------------------------------------------- main
\* main, the loop that builds manageDirs and starts one InitFSWatch each.
SpawnSessions ==
    /\ alive
    /\ pcMain = "spawn"
    /\ pcMain' = "cleanSrc"
    /\ sess' = [d \in Dirs |-> "start"]
    /\ UNCHANGED <<fsVars, dest, alive, todo, watching, fwdVars, routerVars,
                   actVars, nQuits, histVars>>

\* log.Fatalln / log.Fatal: the process ends at once.
Fatal(pc) ==
    /\ alive' = FALSE
    /\ pcMain' = pc

\* cleanDirs, first loop: list every source directory; an error is fatal.
CleanListSources ==
    /\ alive
    /\ pcMain = "cleanSrc"
    /\ \E ok \in BOOLEAN :
          IF ok THEN pcMain' = "cleanDst" /\ UNCHANGED alive
                ELSE Fatal("fatal")
    /\ UNCHANGED <<fsVars, dest, todo, sessVars, fwdVars, routerVars,
                   actVars, nQuits, histVars>>

\* cleanDirs, ioutil.ReadDir(target); an error is fatal.
CleanListTarget ==
    /\ alive
    /\ pcMain = "cleanDst"
    /\ \E ok \in BOOLEAN :
          IF ok
          THEN /\ todo' = ReadDir(dest)
               /\ pcMain' = IF ReadDir(dest) = <<>> THEN "cleaned" ELSE "cleanEntry"
               /\ UNCHANGED alive
          ELSE Fatal("fatal") /\ UNCHANGED todo
    /\ UNCHANGED <<fsVars, dest, sessVars, fwdVars, routerVars,
                   actVars, nQuits, histVars>>

\* cleanDirs, one iteration of the loop over the destination's entries.
CleanStep ==
    /\ alive
    /\ pcMain = "cleanEntry"
    /\ dest' = CleanEntry(dest, Head(todo), files)
    /\ todo' = Tail(todo)
    /\ pcMain' = IF Tail(todo) = <<>> THEN "cleaned" ELSE "cleanEntry"
    /\ UNCHANGED <<fsVars, alive, sessVars, fwdVars, routerVars,
                   actVars, nQuits, histVars>>

\* main after cleanDirs: exitCnt := len(manageDirs), start the router, then
\* block in daemon.ServeSignals.
StartRouter ==
    /\ alive
    /\ pcMain = "cleaned"
    /\ pcMain' = "serve"
    /\ exitCnt' = Cardinality(Dirs)
    /\ pcRouter' = "select"
    /\ UNCHANGED <<fsVars, dest, alive, todo, sessVars, fwdVars, quitSent,
                   actVars, nQuits, histVars>>

\* The signal handler: SIGTERM ends the process with os.Exit(0); any other
\* signal is logged and ignored.
handler(sig) ==
    IF sig = "SIGTERM"
    THEN alive' = FALSE /\ termReq' = TRUE
    ELSE UNCHANGED <<alive, termReq>>

\* daemon.ServeSignals delivers a signal to the handler.
Signal ==
    /\ alive
    /\ pcMain = "serve"
    /\ \E sig \in {"SIGTERM", "SIGHUP"} : handler(sig)
    /\ UNCHANGED <<fsVars, dest, mainVars, sessVars, fwdVars, routerVars,
                   actVars, nQuits, initDest, srcTouched>>

\* ------------------------------------------------------ Watch Session
\* Mutant: a session whose watch registration failed returns at once.
InitFSWatch_ReturnOnError(d) ==
    /\ alive
    /\ sess[d] = "start"
    /\ \E outcome \in {"fatal", "watch", "nowatch"} :
          IF outcome = "fatal"
          THEN /\ alive' = FALSE
               /\ UNCHANGED <<sess, watching, fsPc>>
          ELSE /\ sess' = [sess EXCEPT ![d] = IF outcome = "watch"
                                              THEN "waitQuit" ELSE "done"]
               /\ fsPc' = [fsPc EXCEPT ![d] = "select"]
               /\ watching' = [watching EXCEPT ![d] = (outcome = "watch")]
               /\ UNCHANGED alive
    /\ UNCHANGED <<fsVars, dest, mainVars, held, routerVars, actVars, nQuits,
                   histVars>>

\* InitFSWatch up to its receive on d.WatcherQuit: NewWatcher (fatal when it
\* fails), go fsEvent, StartFSWatch (a failed Watch is only logged).
InitFSWatch(d) ==
    /\ alive
    /\ sess[d] = "start"
    /\ \E outcome \in {"fatal", "watch", "nowatch"} :
          IF outcome = "fatal"
          THEN /\ alive' = FALSE
               /\ UNCHANGED <<sess, watching, fsPc>>
          ELSE /\ sess' = [sess EXCEPT ![d] = "waitQuit"]
               /\ fsPc' = [fsPc EXCEPT ![d] = "select"]
               /\ watching' = [watching EXCEPT ![d] = (outcome = "watch")]
               /\ UNCHANGED alive
    /\ UNCHANGED <<fsVars, dest, mainVars, held, routerVars, actVars, nQuits,
                   histVars>>

\* Mutant: the watcher is closed before the exit acknowledgment is taken.
CloseWatcher_BeforeAck(d) ==
    /\ alive
    /\ sess[d] = "sendExit"
    /\ watching[d]
    /\ watching' = [watching EXCEPT ![d] = FALSE]
    /\ wq' = [wq EXCEPT ![d] = <<>>]
    /\ UNCHANGED <<files, nOps, dest, alive, mainVars, sess, fwdVars, routerVars,
                   actVars, nQuits, histVars>>

\* InitFSWatch, d.fileWatcher.Close(): the watch handle is released; the OS
\* drops what it had queued for it and reports nothing more for d. (What the
\* fsnotify library then delivers on its closed channels is not modelled.)
CloseWatcher(d) ==
    /\ alive
    /\ sess[d] = "close"
    /\ sess' = [sess EXCEPT ![d] = "done"]
    /\ watching' = [watching EXCEPT ![d] = FALSE]
    /\ wq' = [wq EXCEPT ![d] = <<>>]
    /\ UNCHANGED <<files, nOps, dest, alive, mainVars, fwdVars, routerVars,
                   actVars, nQuits, histVars>>

\* Mutant: fsEvent takes the newest queued event instead of the oldest.
FsEventRecv_Newest(d) ==
    /\ alive
    /\ fsPc[d] = "select"
    /\ wq[d] # <<>>
    /\ held' = [held EXCEPT ![d] = wq[d][Len(wq[d])]]
    /\ wq' = [wq EXCEPT ![d] = SubSeq(@, 1, Len(@) - 1)]
    /\ fsPc' = [fsPc EXCEPT ![d] = "send"]
    /\ UNCHANGED <<files, nOps, dest, alive, mainVars, sessVars, routerVars,
                   actVars, nQuits, histVars>>

\* fsEvent, case ev := <-watcher.Event: build the UpdateHeader to send.
FsEventRecv(d) ==
    /\ alive
    /\ fsPc[d] = "select"
    /\ wq[d] # <<>>
    /\ held' = [held EXCEPT ![d] = Head(wq[d])]
    /\ wq' = [wq EXCEPT ![d] = Tail(@)]
    /\ fsPc' = [fsPc EXCEPT ![d] = "send"]
    /\ UNCHANGED <<files, nOps, dest, alive, mainVars, sessVars, routerVars,
                   actVars, nQuits, histVars>>

\* ------------------------------------------------------- Event Router
\* case <-chanQuit: enter the loop that sends WatcherQuit to every dir.
RouterOnQuit ==
    /\ pcRouter = "select"
    /\ pcRouter' = "quitting"
    /\ quitSent' = 0
    /\ UNCHANGED exitCnt

\* The process host's requestShutdown(): a value is sent on chanQuit. No
\* statement of lnsync.go sends on chanQuit; the sender is taken from the
\* design (sections 4.5 and 6), the receiving side is the router's code.
RequestShutdown ==
    /\ alive
    /\ nQuits < MaxQuits
    /\ nQuits' = nQuits + 1
    /\ RouterOnQuit
    /\ UNCHANGED <<fsVars, dest, alive, mainVars, sessVars, fwdVars,
                   actVars, histVars>>

\* Mutant: the session that takes the quit signal goes on waiting for one.
SendWatcherQuit_Again(d) ==
    /\ alive
    /\ pcRouter = "quitting"
    /\ sess[d] = "waitQuit"
    /\ quitSent' = quitSent + 1
    /\ pcRouter' = IF quitSent + 1 = Cardinality(Dirs)
                   THEN RouterCheck(exitCnt) ELSE "quitting"
    /\ UNCHANGED <<fsVars, dest, alive, mainVars, sessVars, fwdVars, exitCnt,
                   actVars, nQuits, histVars>>

\* dir.WatcherQuit <- true, received by session d at <-d.WatcherQuit (the
\* channel is one and the same for all sessions).
SendWatcherQuit(d) ==
    /\ alive
    /\ pcRouter = "quitting"
    /\ sess[d] = "waitQuit"
    /\ sess' = [sess EXCEPT ![d] = "sendExit"]
    /\ quitSent' = quitSent + 1
    /\ pcRouter' = IF quitSent + 1 = Cardinality(Dirs)
                   THEN RouterCheck(exitCnt) ELSE "quitting"
    /\ UNCHANGED <<fsVars, dest, alive, mainVars, watching, fwdVars, exitCnt,
                   actVars, nQuits, histVars>>

\* case fileUpdate := <-chanUpdate, sent by d's fsEvent: spawn UpdateDirs.
RecvUpdate(d) ==
    /\ alive
    /\ pcRouter = "select"
    /\ fsPc[d] = "send"
    /\ running' = running \cup {held[d]}
    /\ nDisp' = [nDisp EXCEPT ![held[d].id] = @ + 1]
    /\ held' = [held EXCEPT ![d] = NoEvent]
    /\ fsPc' = [fsPc EXCEPT ![d] = "select"]
    /\ pcRouter' = RouterCheck(exitCnt)
    /\ UNCHANGED <<fsVars, dest, alive, mainVars, sessVars, exitCnt, quitSent,
                   finished, nQuits, histVars>>

\* Mutant: the router takes the exit acknowledgment without counting it.
RecvExit_NoCount(d) ==
    /\ alive
    /\ pcRouter = "select"
    /\ sess[d] = "sendExit"
    /\ sess' = [sess EXCEPT ![d] = "close"]
    /\ pcRouter' = RouterCheck(exitCnt)
    /\ UNCHANGED <<fsVars, dest, alive, mainVars, watching, fwdVars, exitCnt,
                   quitSent, actVars, nQuits, histVars>>

\* case <-chanExit, sent by session d at d.Exit <- true: exitCnt--.
RecvExit(d) ==
    /\ alive
    /\ pcRouter = "select"
    /\ sess[d] = "sendExit"
    /\ sess' = [sess EXCEPT ![d] = "close"]
    /\ exitCnt' = exitCnt - 1
    /\ pcRouter' = RouterCheck(exitCnt - 1)
    /\ UNCHANGED <<fsVars, dest, alive, mainVars, watching, fwdVars, quitSent,
                   actVars, nQuits, histVars>>

\* --------------------------------------------------- Link Synchronizer
\* One spawned UpdateDirs goroutine runs.
RunUpdateDirs(e) ==
    /\ alive
    /\ e \in running
    /\ dest' = UpdateDirs(dest, e).d
    /\ finished' = finished \cup {[ev |-> e, err |-> UpdateDirs(dest, e).err]}
    /\ running' = running \ {e}
    /\ UNCHANGED <<fsVars, alive, mainVars, sessVars, fwdVars, routerVars,
                   nDisp, nQuits, histVars>>

\* ------------------------------------------------------ specification
Env ==
    \E d \in Dirs :
        \/ \E n \in SrcNames : CreateFile(d, n) \/ DeleteFile(d, n) \/ ModifyFile(d, n)
        \/ FsEventError(d)

Next ==
    \/ Env
    \/ SpawnSessions
    \/ CleanListSources
    \/ CleanListTarget
    \/ CleanStep
    \/ StartRouter
    \/ Signal
    \/ RequestShutdown
    \/ \E d \in Dirs : InitFSWatch(d)
    \/ \E d \in Dirs : CloseWatcher(d)
    \/ \E d \in Dirs : FsEventRecv(d)
    \/ \E d \in Dirs : SendWatcherQuit(d)
    \/ \E d \in Dirs : RecvUpdate(d)
    \/ \E d \in Dirs : RecvExit(d)
    \/ \E e \in running : RunUpdateDirs(e)

Spec == Init /\ [][Next]_vars

\* The program under fair scheduling: every goroutine that can take a step
\* eventually takes one, and a select whose case stays ready eventually
\* takes it. Signals, quit requests and the file system are not forced.
Fairness ==
    /\ WF_vars(SpawnSessions)
    /\ WF_vars(CleanListSources)
    /\ WF_vars(CleanListTarget)
    /\ WF_vars(CleanStep)
    /\ WF_vars(StartRouter)
    /\ \A d \in Dirs :
          /\ WF_vars(InitFSWatch(d))
          /\ WF_vars(CloseWatcher(d))
          /\ WF_vars(FsEventRecv(d))
          /\ WF_vars(SendWatcherQuit(d))
          /\ WF_vars(RecvUpdate(d))
          /\ WF_vars(RecvExit(d))

\* Startup for the fair runs: both sources hold a file, the destination a
\* link to one of them and a dangling link.
InitFair ==
    InitWith({{<<"A", "x">>, <<"B", "x">>}},
             {[NoEntries EXCEPT !["x"] = Link(<<"A", "x">>), !["z"] = Link(Gone)]})

SpecFair == InitFair /\ [][Next]_vars /\ Fairness

\* Startup alone, from every destination directory and every source
\* content: the reconciliation pass and what runs beside it.
InitClean == InitWith(SUBSET Files, [Names -> Entries])

FileChange ==
    \E d \in Dirs, n \in SrcNames : CreateFile(d, n) \/ DeleteFile(d, n)

NextClean ==
    \/ FileChange
    \/ SpawnSessions
    \/ CleanListSources
    \/ CleanListTarget
    \/ CleanStep
    \/ \E d \in Dirs : InitFSWatch(d)

SpecClean == InitClean /\ [][NextClean]_vars

\* ================================================================ claims
BaseNames(fs) == {f[2] : f \in fs}
ResolvingLinks == {n \in Names : IsSymlink(dest[n]) /\ Resolves(dest[n], files)}
Done(e, err) == [ev |-> e, err |-> err]

\* No notification is waiting to be forwarded, none is being dispatched and
\* no UpdateDirs goroutine is still to run, while the router is in service.
Quiescent ==
    /\ alive
    /\ pcMain = "serve"
    /\ running = {}
    /\ \A d \in Dirs : wq[d] = <<>> /\ held[d] = NoEvent

\* C1 as claimed: at every quiescent moment the names of the destination
\* links that resolve are exactly the base names of the files present in
\* the source directories.
C1_Orig == Quiescent => ResolvingLinks = BaseNames(files)

\* C1 as amended: at every moment, a destination link made by the Link
\* Synchronizer (an entry that is not the one found at startup) whose target
\* resolves is named after the base name of its target, a file present in
\* a source directory; the converse inclusion is not promised.
C1_Thm ==
    \A n \in Names :
        (IsSymlink(dest[n]) /\ Resolves(dest[n], files) /\ dest[n] # initDest[n])
            => (n \in BaseNames(files) /\ dest[n].target[2] = n)

C1_Wit ==
    /\ Quiescent
    /\ \E n \in Names :
          IsSymlink(dest[n]) /\ Resolves(dest[n], files) /\ dest[n] # initDest[n]

\* C2: once a termination request has ended the process, a global quit
\* signal was sent to the router and every Watch Session had reached its
\* terminal state (exit acknowledged, watch handle released).
C2_Claim ==
    (termReq /\ ~alive) => (nQuits > 0 /\ \A d \in Dirs : sess[d] = "done")

\* C3: after a Watch Session has reached its terminal state, no Link
\* Synchronizer action for a notification of that session's directory
\* changes the destination directory.
C3_Claim ==
    [][\A e \in running :
          (sess[e.dir] = "done" /\ e \notin running') => dest' = dest]_vars

\* C4: when reconciliation has succeeded, every destination entry that was a
\* symbolic link with an unresolvable target is gone and every other entry
\* is as it was at the start (for sources that did not change meanwhile);
\* whatever the sources did, no entry was created or altered, non-links are
\* untouched and links to a path that never resolves are gone.
Pruned(d0, fs) ==
    [n \in Names |-> IF d0[n].type = "link" /\ d0[n].target \notin fs
                     THEN Absent ELSE d0[n]]

C4_Thm ==
    pcMain = "cleaned" =>
        /\ ~srcTouched => dest = Pruned(initDest, files)
        /\ \A n \in Names :
              /\ dest[n] \in {initDest[n], Absent}
              /\ initDest[n].type # "link" => dest[n] = initDest[n]
              /\ initDest[n] = Link(Gone) => dest[n] = Absent

C4_Wit ==
    /\ pcMain = "cleaned"
    /\ ~srcTouched
    /\ initDest["z"] = Link(Gone) /\ dest["z"] = Absent
    /\ initDest["x"] = Absent /\ dest["x"] = Absent
    /\ files # {}

\* C5: a creation notification applied by the Link Synchronizer makes the
\* link basename(f) -> f and changes nothing else when no entry of that name
\* exists; when one exists it fails with EEXIST, which is logged, and the
\* destination is unchanged; the notification is gone either way.
C5_Thm ==
    [][\A e \in running :
          (e.kind = "create" /\ e \notin running') =>
              /\ IF dest[e.name] = Absent
                 THEN /\ dest' = [dest EXCEPT ![e.name] = Link(<<e.dir, e.name>>)]
                      /\ finished' = finished \cup {Done(e, "nil")}
                 ELSE /\ dest' = dest
                      /\ finished' = finished \cup {Done(e, "EEXIST")}
              /\ \A d \in Dirs : held'[d] # e /\ wq'[d] = wq[d]]_vars

C5_Wit ==
    /\ \E r \in finished : r.ev.kind = "create" /\ r.err = "EEXIST"
    /\ \E r \in finished :
          /\ r.ev.kind = "create" /\ r.err = "nil"
          /\ dest[r.ev.name] = Link(<<r.ev.dir, r.ev.name>>)

\* C6: a deletion notification applied by the Link Synchronizer removes the
\* entry basename(f) and changes nothing else when the entry exists; when it
\* does not, it fails with ENOENT, which is logged, and the destination is
\* unchanged.
C6_Thm ==
    [][\A e \in running :
          (e.kind = "delete" /\ e \notin running') =>
              IF dest[e.name] # Absent
              THEN /\ dest' = [dest EXCEPT ![e.name] = Absent]
                   /\ finished' = finished \cup {Done(e, "nil")}
              ELSE /\ dest' = dest
                   /\ finished' = finished \cup {Done(e, "ENOENT")}]_vars

C6_Wit ==
    /\ \E r \in finished : r.ev.kind = "delete" /\ r.err = "nil"
    /\ \E r \in finished : r.ev.kind = "delete" /\ r.err = "ENOENT"
    /\ dest["x"] = Absent /\ initDest["x"] # Absent

QueuedEvents == UNION {{wq[d][i] : i \in 1..Len(wq[d])} : d \in Dirs}
KnownEvents ==
    QueuedEvents \cup ({held[d] : d \in Dirs} \ {NoEvent}) \cup running
        \cup {r.ev : r \in finished}

\* C8 as claimed: when two creation events for one base name have been
\* processed (and no deletion of that name was reported), the entry targets
\* the file of the more recent event.
C8_Orig ==
    \A r1, r2 \in finished :
        (/\ r1.ev.kind = "create" /\ r2.ev.kind = "create"
         /\ r1.ev.name = r2.ev.name
         /\ r1.ev.id < r2.ev.id
         /\ \A e \in KnownEvents : ~(e.kind = "delete" /\ e.name = r1.ev.name))
        => dest[r1.ev.name] = Link(<<r2.ev.dir, r2.ev.name>>)

\* C8 as amended: no step replaces one destination entry by another, so a
\* later creation event never takes over a name that is taken: the entry
\* keeps reflecting the creation that succeeded first.
C8_Thm ==
    [][\A n \in Names :
          (dest[n] # Absent /\ dest'[n] # Absent) => dest'[n] = dest[n]]_vars

C8_Wit ==
    \E r1, r2 \in finished :
        /\ r1.ev.kind = "create" /\ r2.ev.kind = "create"
        /\ r1.ev.name = r2.ev.name
        /\ r1.ev.id < r2.ev.id
        /\ r1.err = "nil" /\ r2.err = "EEXIST"
        /\ dest[r1.ev.name] = Link(<<r1.ev.dir, r1.ev.name>>)
        /\ Quiescent

\* C9 as claimed, in the form a finite run refutes: when the router's loop
\* has ended, no notification a Watch Session created is left unconsumed.
C9_Orig == pcRouter = "done" => \A d \in Dirs : held[d] = NoEvent

\* C9 as amended: a notification is dispatched at most once; a dispatched
\* notification has exactly one Link Synchronizer action, running or
\* finished with one outcome, and is no longer with its Watch Session; a
\* notification not dispatched has none.
QueuedEventsOf(d) == {wq[d][i] : i \in 1..Len(wq[d])}
Times(i, S) == Cardinality({e \in S : e.id = i})

C9_Thm ==
    \A i \in Ids :
        /\ nDisp[i] \in {0, 1}
        /\ Times(i, running) + Cardinality({r \in finished : r.ev.id = i}) = nDisp[i]
        /\ nDisp[i] = 1 =>
              \A d \in Dirs : held[d].id # i /\ Times(i, QueuedEventsOf(d)) = 0

C9_Wit ==
    /\ Quiescent
    /\ \E r \in finished : r.err # "nil" /\ nDisp[r.ev.id] = 1
    /\ \E r \in finished : r.err = "nil" /\ nDisp[r.ev.id] = 1

\* C10 as claimed: when listing a directory fails during reconciliation, no
\* Watch Session has registered its watch and nothing was dispatched.
C10_Orig ==
    pcMain = "fatal" =>
        /\ \A d \in Dirs : ~watching[d] /\ sess[d] \in {"new", "start"}
        /\ \A i \in Ids : nDisp[i] = 0

\* C10 as amended: when listing a directory fails during reconciliation,
\* the process ends before the router exists: no notification was
\* dispatched, no Link Synchronizer action ran, no session was told to quit;
\* the Watch Sessions, started before, may be watching already.
C10_Thm ==
    pcMain = "fatal" =>
        /\ ~alive
        /\ pcRouter = "off"
        /\ running = {} /\ finished = {}
        /\ \A i \in Ids : nDisp[i] = 0
        /\ \A d \in Dirs : sess[d] \in {"start", "waitQuit"}
        /\ \A n \in Names : dest[n] \in {initDest[n], Absent}

C10_Wit ==
    /\ pcMain = "fatal"
    /\ \E d \in Dirs : watching[d] /\ held[d] # NoEvent

\* The sessions whose exit acknowledgment the router has received, and those
\* that have received a quit signal.
Acked == {d \in Dirs : sess[d] \in {"close", "done"}}
GotQuit == {d \in Dirs : sess[d] \in {"sendExit", "close", "done"}}

\* C11: once the router exists, its outstanding count is the number of
\* Watch Sessions minus the exit acknowledgments received, it is never
\* negative, and the router's loop has ended exactly when the count is zero.
C11_Thm ==
    pcRouter # "off" =>
        /\ exitCnt = Cardinality(Dirs) - Cardinality(Acked)
        /\ exitCnt >= 0
        /\ (pcRouter = "done") <=> (exitCnt = 0)
        /\ (pcRouter = "done") => Acked = Dirs

C11_Wit == pcRouter = "done" /\ exitCnt = 0 /\ Acked = Dirs

\* C12: for the first global quit the router receives, the number of quit
\* signals it has sent is the number of sessions that have received one, and
\* when its loop over the directories is over every session has received
\* one (a session takes one signal and never a second).
C12_Thm ==
    nQuits = 1 =>
        /\ pcRouter = "quitting" => quitSent = Cardinality(GotQuit)
        /\ pcRouter # "quitting" =>
              (GotQuit = Dirs /\ quitSent = Cardinality(Dirs))

C12_Wit ==
    /\ nQuits = 1
    /\ pcRouter = "select"
    /\ quitSent = Cardinality(Dirs)
    /\ \A d \in Dirs : sess[d] = "sendExit"

\* C13 as claimed: when a session's notification stream has reported an
\* error and nothing is in flight, the router's count has been decremented
\* for that session although no global quit was received.
C13_Orig ==
    (Quiescent /\ nQuits = 0) =>
        exitCnt = Cardinality(Dirs) - Cardinality({d \in Dirs : fsPc[d] = "exited"})

\* C13 as amended: a stream error ends that session's forwarding loop and
\* nothing else: the process lives, the other sessions' forwarding loops
\* and the router are as before and the count is not decremented; until a
\* global quit is received the session still waits for its quit signal
\* and the count is the number of sessions.
C13_Thm ==
    /\ [](\A d \in Dirs :
            (fsPc[d] = "exited" /\ nQuits = 0) =>
                /\ sess[d] = "waitQuit"
                /\ pcRouter # "off" => exitCnt = Cardinality(Dirs))
    /\ [][\A d \in Dirs :
            (fsPc[d] = "select" /\ fsPc'[d] = "exited") =>
                /\ alive'
                /\ exitCnt' = exitCnt /\ pcRouter' = pcRouter
                /\ sess' = sess
                /\ \A o \in Dirs \ {d} : fsPc'[o] = fsPc[o] /\ held'[o] = held[o]]_vars

C13_Wit ==
    /\ Quiescent
    /\ nQuits = 0
    /\ fsPc["A"] = "exited"
    /\ exitCnt = Cardinality(Dirs)
    /\ \E r \in finished : r.ev.dir = "B"

\* C14: the router dispatches the notifications of one directory in the
\* order the directory's watcher reported them: an event is dispatched only
\* when every earlier event of its directory that is still known has been,
\* and what fsEvent holds is older than what is still queued behind it.
Dispatched == running \cup {r.ev : r \in finished}

C14_Thm ==
    /\ \A e2 \in Dispatched, e1 \in KnownEvents :
          (e1.dir = e2.dir /\ e1.id < e2.id) => e1 \in Dispatched
    /\ \A d \in Dirs : \A i \in 1..Len(wq[d]) :
          /\ held[d] # NoEvent => held[d].id < wq[d][i].id
          /\ \A j \in 1..Len(wq[d]) : i < j => wq[d][i].id < wq[d][j].id

C14_Wit ==
    \E r1, r2 \in finished :
        /\ r1.ev.dir = r2.ev.dir
        /\ r1.ev.id < r2.ev.id

\* The position of InitFSWatch in the order the code passes through them,
\* and the session state of the design it stands for.
Rank(pc) ==
    CASE pc = "new" -> 0
      [] pc = "start" -> 1
      [] pc = "waitQuit" -> 2
      [] pc = "sendExit" -> 3
      [] pc = "close" -> 4
      [] pc = "done" -> 5

SessionState(d) ==
    IF sess[d] \in {"new", "start"} THEN "Idle"
    ELSE IF sess[d] = "waitQuit" THEN (IF watching[d] THEN "Watching" ELSE "Idle")
    ELSE IF sess[d] \in {"sendExit", "close"} THEN "Draining"
    ELSE "Stopped"

\* C15: a Watch Session only moves forward, one position at a time: it
\* leaves its wait only by receiving a quit signal from the router, its exit
\* acknowledgment is taken once, by the router, which counts it; its watch is
\* registered only at the start and released only after the acknowledgment
\* was accepted, and a session that has left Watching is never Watching
\* again.
C15_Thm ==
    [][\A d \in Dirs :
          /\ Rank(sess'[d]) \in {Rank(sess[d]), Rank(sess[d]) + 1}
          /\ (sess[d] = "waitQuit" /\ sess'[d] = "sendExit") => pcRouter = "quitting"
          /\ (sess[d] = "sendExit" /\ sess'[d] = "close") =>
                (pcRouter = "select" /\ exitCnt' = exitCnt - 1)
          /\ (~watching[d] /\ watching'[d]) => sess[d] = "start"
          /\ (watching[d] /\ ~watching'[d]) => (sess[d] = "close" /\ sess'[d] = "done")
          /\ SessionState(d)' = "Watching" => SessionState(d) \in {"Idle", "Watching"}]_vars

C15_Wit ==
    /\ alive
    /\ \E d \in Dirs : SessionState(d) = "Stopped" /\ d \in Acked
    /\ \E d \in Dirs : SessionState(d) = "Draining" /\ watching[d]

\* C16: while main has not returned from cleanDirs and started the router,
\* the router does not exist, no notification was dispatched and no Link
\* Synchronizer action ran, although a session may hold a notification; and
\* reconciliation is never entered again once the router runs.
C16_Thm ==
    /\ [](pcMain \in {"spawn"} \cup CleanPcs =>
            /\ pcRouter = "off"
            /\ running = {} /\ finished = {}
            /\ \A i \in Ids : nDisp[i] = 0)
    /\ [][/\ pcMain = "serve" => pcMain' = "serve"
          /\ dest' # dest => (pcMain = "cleanEntry" \/ pcMain = "serve")]_vars

C16_Wit ==
    /\ pcMain = "cleanEntry"
    /\ alive
    /\ \E d \in Dirs : held[d] # NoEvent

\* C17: a Watch Session whose watch registration failed (it is past its
\* start with no watch, its handle not yet closed) has no notification
\* anywhere, queued, held, dispatched or finished; no session leaves its
\* wait before a global quit was received; and when such a session's exit
\* acknowledgment has been taken the router has counted it.
C17_Thm ==
    \A d \in Dirs :
        /\ nQuits = 0 => sess[d] \in {"new", "start", "waitQuit"}
        /\ (~watching[d] /\ sess[d] \in {"waitQuit", "sendExit", "close"}) =>
              /\ wq[d] = <<>> /\ held[d] = NoEvent
              /\ \A e \in KnownEvents : e.dir # d
        /\ (~watching[d] /\ sess[d] = "close") =>
              exitCnt = Cardinality(Dirs) - Cardinality(Acked)

C17_Wit ==
    /\ alive
    /\ pcRouter = "done"
    /\ exitCnt = 0
    /\ nOps > 0
    /\ ~watching["A"] /\ sess["A"] = "close"
    /\ sess["B"] = "done"

\* C18: the destination directory changes only in a reconciliation step or
\* in the step that finishes the action of a creation or a deletion
\* notification: finishing the action of any other notification, and
\* forwarding or dispatching any notification, leave it as it is.
C18_Thm ==
    [][/\ dest' # dest =>
            \/ pcMain = "cleanEntry"
            \/ \E e \in running \ running' : e.kind \in {"create", "delete"}
       /\ \A e \in running \ running' :
            e.kind \notin {"create", "delete"} =>
                (dest' = dest /\ Done(e, "nil") \in finished')]_vars

C18_Wit ==
    /\ \E r \in finished : r.ev.kind = "modify" /\ r.err = "nil"
    /\ \E d \in Dirs : \E i \in 1..Len(wq[d]) : wq[d][i].kind = "modify"
    /\ dest = initDest
    /\ pcMain = "serve"

\* C19: under fair scheduling, once the router has received a global quit
\* signal, every Watch Session acknowledges exit and releases its handle
\* and the router's loop ends, whatever notifications are pending or still
\* arrive; unless the process is ended by a signal or a second quit signal
\* is received, which is the case of C20.
Terminated == pcRouter = "done" /\ \A d \in Dirs : sess[d] = "done"

C19_Thm == (nQuits = 1) ~> (Terminated \/ ~alive \/ nQuits > 1)

C19_Wit ==
    /\ alive
    /\ nQuits = 1
    /\ Terminated
    /\ \E d \in Dirs : held[d] # NoEvent
    /\ running # {}

\* C20: shutdown tolerates repeated quit requests: while the router is
\* forwarding quit signals and the process lives, some Watch Session has
\* yet to take one, so the router never blocks forever in that loop and
\* goes on to receive every exit acknowledgment.
C20_Claim ==
    (alive /\ pcRouter = "quitting") =>
        \E d \in Dirs : sess[d] \in {"new", "start", "waitQuit"}

====
